---- MODULE Spec2Model ----
(***************************************************************************)
(* A model of DevOps_Robot.py (class AIDevOpsRobot): the platform trigger  *)
(* adapters, the deployment fan-out, the workflow sequencer, the           *)
(* repository improvement planner, the batch runner and the calls to the   *)
(* source-control provider API.                                            *)
(*                                                                         *)
(* The program is single-threaded.  Every method is an operator that maps  *)
(* the outcomes of the external calls it makes (exit status of a git       *)
(* subprocess, response of an HTTP request) to its return value, the       *)
(* ordered log of the external effects it had, and the working copies it   *)
(* leaves on disk.  An exception leaving a method is the return value      *)
(* being one of the names in Raised.  Python values are strings: "True",   *)
(* "False", "None", "{}" (an empty dict) and "data" (a non-empty one).     *)
(***************************************************************************)
EXTENDS Integers, Sequences, FiniteSets, TLC

VARIABLES
    config,         \* self.config: auto_deploy and hosting_platforms
    github_token,   \* self.github_token, "" when absent
    render_token,   \* os.getenv("RENDER_TOKEN"), "" when absent
    workcopy,       \* the working copies on disk, one entry per repository
    pc,             \* "idle", "batch" (inside the batch loop) or "done"
    last,           \* the call that ran last: op, arg, ret, log
    batch           \* the batch loop: repos, operation, files, i, results

vars == <<config, github_token, render_token, workcopy, pc, last, batch>>

(***************************************************************************)
(* Values                                                                  *)
(***************************************************************************)
Repos == {"r1", "r2", "r3"}

Raised == {"RequestException", "ValueError"}

\* An external effect, in the order the program had it.
\* kind "http": tag is the host, arg the endpoint, got the response or failure;
\* kind "git": tag is the subcommand, arg its argument, got the exit status;
\* kind "write": tag is the repository, arg the <<path, content>> written;
\* kind "call": tag is the method entered, arg its argument;
\* kind "stat": tag is the path tested with os.path.exists, got the answer;
\* kind "print": tag is the diagnostic printed.
Ev(kind, tag, arg, got) == [kind |-> kind, tag |-> tag, arg |-> arg, got |-> got]
Http(host, endpoint, resp) == Ev("http", host, endpoint, resp)
Git(cmd, arg, exit) == Ev("git", cmd, arg, exit)
WriteFile(repo, path, content) == Ev("write", repo, <<path, content>>, 0)
Enter(method, arg) == Ev("call", method, arg, 0)
PathExists(path, exists) == Ev("stat", path, "", exists)
Stdout(msg) == Ev("print", msg, "", 0)

R(ret, log) == [ret |-> ret, log |-> log]
NotCalled == R("NotCalled", <<>>)

\* An HTTP exchange either yields a response with a status code or raises
\* a requests.RequestException (connection error, timeout, bad URL).
Response(code) == [kind |-> "response", code |-> code, body |-> {}]
TransportFailure == [kind |-> "exception", code |-> 0, body |-> {}]

StatusCodes == {200, 201, 202, 204, 404, 500}
Responses == {Response(c) : c \in StatusCodes} \cup {TransportFailure}

HttpCalls(log, host) == {i \in 1..Len(log) : log[i].kind = "http" /\ log[i].tag = host}
GitCalls(log, cmd) == {i \in 1..Len(log) : log[i].kind = "git" /\ log[i].tag = cmd}
Writes(log) == {i \in 1..Len(log) : log[i].kind = "write"}
Calls(log, method) == {i \in 1..Len(log) : log[i].kind = "call" /\ log[i].tag = method}
Printed(log, msg) == \E i \in 1..Len(log) : log[i].kind = "print" /\ log[i].tag = msg

(***************************************************************************)
(* Platform trigger adapters                                               *)
(***************************************************************************)
Accepted == {200, 201, 202}

\* An adapter that ran: its entry, then what it did.
Ran(adapter, ret, log) == R(ret, <<Enter(adapter, "")>> \o log)

\* The adapter without its test of the enabled flag.
deploy_to_vercel_unguarded(resp) ==
    LET cfg == config.hosting_platforms.vercel
        hook == cfg.deploy_hook_url
    IN  IF hook = ""
        THEN Ran("deploy_to_vercel", "False", <<Stdout("Missing vercel.deploy_hook_url in config")>>)
        ELSE IF resp.kind = "exception"
        THEN Ran("deploy_to_vercel", "False", <<Http("vercel", hook, resp), Stdout("Vercel request error")>>)
        ELSE IF resp.code \in Accepted
        THEN Ran("deploy_to_vercel", "True", <<Http("vercel", hook, resp), Stdout("Vercel deployment triggered")>>)
        ELSE Ran("deploy_to_vercel", "False", <<Http("vercel", hook, resp), Stdout("Vercel deployment failed")>>)

deploy_to_vercel(resp) ==
    LET cfg == config.hosting_platforms.vercel
        hook == cfg.deploy_hook_url
    IN  IF ~cfg.enabled
        THEN Ran("deploy_to_vercel", "False", <<Stdout("Vercel deployment not enabled in config")>>)
        ELSE IF hook = ""
        THEN Ran("deploy_to_vercel", "False", <<Stdout("Missing vercel.deploy_hook_url in config")>>)
        ELSE IF resp.kind = "exception"
        THEN Ran("deploy_to_vercel", "False", <<Http("vercel", hook, resp), Stdout("Vercel request error")>>)
        ELSE IF resp.code \in Accepted
        THEN Ran("deploy_to_vercel", "True", <<Http("vercel", hook, resp), Stdout("Vercel deployment triggered")>>)
        ELSE Ran("deploy_to_vercel", "False", <<Http("vercel", hook, resp), Stdout("Vercel deployment failed")>>)

\* service_id is the caller's override, "" for None.
deploy_to_render(service_id, resp) ==
    LET cfg == config.hosting_platforms.render
        sid == IF service_id # "" THEN service_id ELSE cfg.service_id
    IN  IF ~cfg.enabled
        THEN Ran("deploy_to_render", "False", <<Stdout("Render deployment not enabled in config")>>)
        ELSE IF render_token = ""
        THEN Ran("deploy_to_render", "False", <<Stdout("RENDER_TOKEN is not set")>>)
        ELSE IF sid = ""
        THEN Ran("deploy_to_render", "False", <<Stdout("Missing render.service_id in config")>>)
        ELSE IF resp.kind = "exception"
        THEN Ran("deploy_to_render", "RequestException", <<Http("render", sid, resp)>>)
        ELSE IF resp.code \in Accepted
        THEN Ran("deploy_to_render", "True", <<Http("render", sid, resp), Stdout("Render deployment triggered")>>)
        ELSE Ran("deploy_to_render", "False", <<Http("render", sid, resp), Stdout("Render deployment failed")>>)

deploy_to_netlify(resp) ==
    LET cfg == config.hosting_platforms.netlify
        hook == cfg.deploy_hook_url
    IN  IF ~cfg.enabled
        THEN Ran("deploy_to_netlify", "False", <<Stdout("Netlify deployment not enabled in config")>>)
        ELSE IF hook # ""
        THEN IF resp.kind = "exception"
             THEN Ran("deploy_to_netlify", "False", <<Http("netlify", hook, resp), Stdout("Netlify request error")>>)
             ELSE IF resp.code \in Accepted
             THEN Ran("deploy_to_netlify", "True", <<Http("netlify", hook, resp), Stdout("Netlify deployment triggered")>>)
             ELSE Ran("deploy_to_netlify", "False", <<Http("netlify", hook, resp), Stdout("Netlify deployment failed")>>)
        ELSE Ran("deploy_to_netlify", "False", <<Stdout("Missing netlify.deploy_hook_url in config")>>)

(***************************************************************************)
(* Deployment fan-out                                                      *)
(***************************************************************************)
\* What the fan-out makes of its attempts v, r, n on vercel, render and
\* netlify (NotCalled for a target that is not enabled).
Aggregate(v, r, n) ==
    LET ok_any == v.ret = "True" \/ r.ret = "True" \/ n.ret = "True"
    IN  IF r.ret \in Raised
        THEN R(r.ret, v.log \o r.log)
        ELSE R("None", v.log \o r.log \o n.log \o
                       (IF ok_any THEN <<>>
                        ELSE <<Stdout("No deployments triggered")>>))

\* resp gives the outcome of each target's outbound call, should it be made.
trigger_all_deployments(resp) ==
    Aggregate(IF config.hosting_platforms.vercel.enabled
              THEN deploy_to_vercel(resp.vercel) ELSE NotCalled,
              IF config.hosting_platforms.render.enabled
              THEN deploy_to_render(config.hosting_platforms.render.service_id, resp.render)
              ELSE NotCalled,
              IF config.hosting_platforms.netlify.enabled
              THEN deploy_to_netlify(resp.netlify) ELSE NotCalled)

(***************************************************************************)
(* Git helpers and the commit-and-push cycle                               *)
(***************************************************************************)
\* A git subprocess exits with status 0 or, on failure, non-zero.
ExitCodes == {0, 1}

RepoPath(repo_name) == "./" \o repo_name

\* identity: what `git config user.name / user.email` print, and the exit
\* status of the `git config` that sets a missing one.
_ensure_git_identity(repo_path, identity) ==
    LET reads == <<Git("config user.name", repo_path, 0),
                   Git("config user.email", repo_path, 0)>>
        setName == <<Git("config user.name AI DevOps Robot", repo_path, identity.set)>>
        setEmail == <<Git("config user.email noreply", repo_path, identity.set)>>
        warn == <<Stdout("Could not ensure git identity")>>
    IN  IF identity.name = "" /\ identity.set # 0 THEN reads \o setName \o warn
        ELSE IF identity.email = "" /\ identity.set # 0
        THEN reads \o (IF identity.name = "" THEN setName ELSE <<>>) \o setEmail \o warn
        ELSE reads \o (IF identity.name = "" THEN setName ELSE <<>>)
                   \o (IF identity.email = "" THEN setEmail ELSE <<>>)

\* A clone that is tried a second time when it fails.
clone_repository_retried(repo_name, exit) ==
    LET repo_url == "https://github.com/user/" \o repo_name \o ".git"
    IN  IF exit = 0
        THEN R(RepoPath(repo_name),
               <<Git("clone", repo_url, exit), Stdout("Repository cloned")>>)
        ELSE R("", <<Git("clone", repo_url, exit), Git("clone", repo_url, exit),
                     Stdout("Failed to clone repository")>>)

clone_repository(repo_name, exit) ==
    LET repo_url == "https://github.com/user/" \o repo_name \o ".git"
    IN  IF exit = 0
        THEN R(RepoPath(repo_name),
               <<Git("clone", repo_url, exit), Stdout("Repository cloned")>>)
        ELSE R("", <<Git("clone", repo_url, exit), Stdout("Failed to clone repository")>>)

\* git: head is what `git rev-parse --abbrev-ref HEAD` prints ("" when it
\* fails or prints nothing), add/commit/push are the exit statuses.
\* Called without files and without branch, as the sequencer calls it.
commit_and_push(repo_path, message, identity, git) ==
    LET branch == IF git.head = "" THEN "main" ELSE git.head
        inferred == <<Git("rev-parse --abbrev-ref HEAD", repo_path,
                          IF git.head = "" THEN 1 ELSE 0)>>
        failed == <<Stdout("Git operation failed")>>
        add == <<Git("add", ".", git.add)>>
        commit == <<Git("commit", message, git.commit)>>
        push == <<Git("push", branch, git.push)>>
    IN  R("None",
          _ensure_git_identity(repo_path, identity) \o inferred \o
          (IF git.add # 0 THEN add \o failed
           ELSE IF git.commit # 0 THEN add \o commit \o failed
           ELSE IF git.push # 0 THEN add \o commit \o push \o failed
           ELSE add \o commit \o push \o <<Stdout("Changes committed and pushed")>>))

(***************************************************************************)
(* Workflow sequencer                                                      *)
(***************************************************************************)
Paths == {"README.md", ".gitignore", ".github/workflows/deploy.yml", "src/app.py"}
Absent == "<absent>"
EmptyTree == [p \in Paths |-> Absent]

\* files_to_update is a dict: a sequence of <<path, content>> items in
\* insertion order, no path twice.
RECURSIVE WriteAll(_, _, _)
WriteAll(repo_name, items, tree) ==
    IF items = <<>> THEN [tree |-> tree, log |-> <<>>]
    ELSE LET item == Head(items)
             rest == WriteAll(repo_name, Tail(items),
                              [tree EXCEPT ![item[1]] = item[2]])
         IN  [tree |-> rest.tree,
              log |-> <<WriteFile(repo_name, item[1], item[2]),
                        Stdout("Updated " \o item[1])>> \o rest.log]

CommitMsg(files_to_update) ==
    "Auto-update: " \o ToString(Len(files_to_update)) \o " files updated"

AutoDeploy == config.auto_deploy # "False"

\* A call of `method` with `arg` that did `res`.
Entered(method, arg, res) == R(res.ret, <<Enter(method, arg)>> \o res.log)

\* The sequencer with a rollback: when add, commit or push exits non-zero
\* the working copy gets back the files it had before the writes.
WorkflowStepsRollingBack(repo_name, files_to_update, had, cloned, remote, pushed, deployed) ==
    LET start == <<Enter("auto_workflow_update_and_deploy", files_to_update),
                   PathExists(RepoPath(repo_name), had.exists)>>
        copy == IF had.exists THEN had
                ELSE IF cloned.ret # "" THEN [exists |-> TRUE, files |-> remote]
                ELSE had
        written == WriteAll(repo_name, files_to_update, copy.files)
        log == start \o cloned.log \o written.log \o pushed.log \o deployed.log
        failed == \E i \in 1..Len(pushed.log) :
                      pushed.log[i].kind = "print" /\ pushed.log[i].tag = "Git operation failed"
        after == IF failed THEN copy ELSE [copy EXCEPT !.files = written.tree]
    IN  IF cloned.ret = ""
        THEN [ret |-> "False", log |-> start \o cloned.log, copy |-> copy]
        ELSE IF deployed.ret \in Raised
        THEN [ret |-> deployed.ret, log |-> log, copy |-> after]
        ELSE [ret |-> "True", log |-> log, copy |-> after]

\* The sequencer's steps, given what it found on disk (had), what obtaining
\* the working copy did (cloned), the tree a clone checks out (remote), and
\* what the commit-and-push cycle and the fan-out do when reached.
WorkflowSteps(repo_name, files_to_update, had, cloned, remote, pushed, deployed) ==
    LET start == <<Enter("auto_workflow_update_and_deploy", files_to_update),
                   PathExists(RepoPath(repo_name), had.exists)>>
        copy == IF had.exists THEN had
                ELSE IF cloned.ret # "" THEN [exists |-> TRUE, files |-> remote]
                ELSE had
        written == WriteAll(repo_name, files_to_update, copy.files)
        log == start \o cloned.log \o written.log \o pushed.log \o deployed.log
        after == [copy EXCEPT !.files = written.tree]
    IN  IF cloned.ret = ""
        THEN [ret |-> "False", log |-> start \o cloned.log, copy |-> copy]
        ELSE IF deployed.ret \in Raised
        THEN [ret |-> deployed.ret, log |-> log, copy |-> after]
        ELSE [ret |-> "True", log |-> log, copy |-> after]

\* env: clone (exit status of git clone), remote (the tree a clone checks
\* out), identity, git, resp (see above).  Returns ret, log and the working
\* copy it leaves for repo_name.
auto_workflow_update_and_deploy(repo_name, files_to_update, env) ==
    WorkflowSteps(repo_name, files_to_update, workcopy[repo_name],
                  IF workcopy[repo_name].exists THEN R(RepoPath(repo_name), <<>>)
                  ELSE clone_repository(repo_name, env.clone),
                  env.remote,
                  commit_and_push(RepoPath(repo_name), CommitMsg(files_to_update),
                                  env.identity, env.git),
                  IF AutoDeploy
                  THEN Entered("trigger_all_deployments", repo_name,
                               trigger_all_deployments(env.resp))
                  ELSE NotCalled)

(***************************************************************************)
(* Repository improvement planner                                          *)
(***************************************************************************)
UpperCase == "ABCDEFGHIJKLMNOPQRSTUVWXYZ"
LowerCase == "abcdefghijklmnopqrstuvwxyz"
Char(str, i) == SubSeq(str, i, i)

\* str.lower()
LowerTable ==
    [c \in {Char(UpperCase, i) : i \in 1..Len(UpperCase)} |->
        Char(LowerCase, CHOOSE i \in 1..Len(UpperCase) : Char(UpperCase, i) = c)]
LowerChar(c) == IF c \in DOMAIN LowerTable THEN LowerTable[c] ELSE c

RECURSIVE Lower(_)
Lower(str) ==
    IF str = "" THEN "" ELSE LowerChar(Char(str, 1)) \o Lower(SubSeq(str, 2, Len(str)))

\* str.startswith(prefix) and `part in str`
StartsWith(str, prefix) ==
    Len(str) >= Len(prefix) /\ SubSeq(str, 1, Len(prefix)) = prefix
Contains(str, part) ==
    \E i \in 1..(Len(str) - Len(part) + 1) : SubSeq(str, i, i + Len(part) - 1) = part

generate_readme(repo_name) == "# " \o repo_name \o " ... managed by AI DevOps Robot"
generate_gitignore == "# Dependencies node_modules/ ..."
generate_github_actions_workflow == "name: Deploy (Hooks) ..."

ContentsUrl(repo_name) == "repos/user/" \o repo_name \o "/contents"

\* resp is the provider's answer to the listing request; a 200 carries the
\* names of the top-level entries (a set: the provider lists a name once and
\* the code never looks at their order).
analyze_repository(repo_name, resp) ==
    LET request == <<Enter("analyze_repository", repo_name),
                     Http("github", ContentsUrl(repo_name), resp)>>
        files == resp.body
    IN  IF resp.kind = "exception"
        THEN [ret |-> "RequestException", log |-> request, analysis |-> <<>>]
        ELSE IF resp.code # 200
        THEN [ret |-> "{}", analysis |-> <<>>,
              log |-> request \o <<Stdout("Failed to analyze repository")>>]
        ELSE LET has_readme == \E f \in files : StartsWith(Lower(f), "readme")
                 has_package_json == \E f \in files : f = "package.json"
                 has_dockerfile == \E f \in files : Lower(f) = "dockerfile"
             IN  [ret |-> "data", log |-> request,
                  analysis |->
                     [files |-> files,
                      has_readme |-> has_readme,
                      has_package_json |-> has_package_json,
                      has_dockerfile |-> has_dockerfile,
                      suggestions |->
                         (IF ~has_readme THEN <<"Add a README.md file">> ELSE <<>>) \o
                         (IF ~has_package_json /\ \E f \in files : Contains(f, ".js")
                          THEN <<"Consider adding package.json for Node.js project">>
                          ELSE <<>>)]]

\* The mapping with README.md decided by a case-sensitive look at the names.
ImprovementsCaseSensitive(repo_name, analysis) ==
    (IF ~\E f \in analysis.files : StartsWith(f, "readme")
     THEN <<<<"README.md", generate_readme(repo_name)>>>> ELSE <<>>) \o
    (IF ".gitignore" \notin analysis.files
     THEN <<<<".gitignore", generate_gitignore>>>> ELSE <<>>) \o
    <<<<".github/workflows/deploy.yml", generate_github_actions_workflow>>>>

\* The file mapping the planner builds from an analysis.
Improvements(repo_name, analysis) ==
    (IF ~analysis.has_readme
     THEN <<<<"README.md", generate_readme(repo_name)>>>> ELSE <<>>) \o
    (IF ".gitignore" \notin analysis.files
     THEN <<<<".gitignore", generate_gitignore>>>> ELSE <<>>) \o
    <<<<".github/workflows/deploy.yml", generate_github_actions_workflow>>>>

\* The planner after the sequencer returned (or raised) `flow`.
Improved(log, flow) ==
    IF flow.ret \in Raised
    THEN [ret |-> flow.ret, log |-> log \o flow.log, copy |-> flow.copy]
    ELSE [ret |-> "True", copy |-> flow.copy,
          log |-> log \o flow.log \o <<Stdout("Repository improved")>>]

\* The planner with its file mapping built.
Handed(repo_name, log, improvements, env) ==
    IF improvements # <<>>
    THEN Improved(log, auto_workflow_update_and_deploy(repo_name, improvements, env))
    ELSE [ret |-> "True", copy |-> workcopy[repo_name],
          log |-> log \o <<Stdout("No improvements needed")>>]

\* The planner after analyze_repository returned (or raised) `analyzed`.
Planned(repo_name, analyzed, env) ==
    LET log == <<Enter("auto_improve_repository", repo_name)>> \o analyzed.log
    IN  IF analyzed.ret \in Raised
        THEN [ret |-> analyzed.ret, log |-> log, copy |-> workcopy[repo_name]]
        ELSE IF analyzed.ret = "{}"
        THEN [ret |-> "False", log |-> log, copy |-> workcopy[repo_name]]
        ELSE Handed(repo_name, log, Improvements(repo_name, analyzed.analysis), env)

\* env: listing (the answer to the listing request) and the workflow's env.
auto_improve_repository(repo_name, env) ==
    Planned(repo_name, analyze_repository(repo_name, env.listing), env)

(***************************************************************************)
(* Calls to the source-control provider API                                *)
(***************************************************************************)
\* A request that needs the token and raises without it; `accept` is the
\* status code that makes it return `good`, any other returns `bad`.
Authorized(method, endpoint, resp, accept, good, bad) ==
    IF github_token = ""
    THEN R("ValueError", <<Enter(method, endpoint)>>)
    ELSE IF resp.kind = "exception"
    THEN R("RequestException", <<Enter(method, endpoint), Http("github", endpoint, resp)>>)
    ELSE IF resp.code = accept
    THEN R(good, <<Enter(method, endpoint), Http("github", endpoint, resp)>>)
    ELSE R(bad, <<Enter(method, endpoint), Http("github", endpoint, resp),
                  Stdout("Failed: " \o method)>>)

create_repository(repo_name, resp) ==
    Authorized("create_repository", "user/repos", resp, 201, "data", "{}")

create_pull_request(repo_name, resp) ==
    Authorized("create_pull_request", "repos/user/" \o repo_name \o "/pulls",
               resp, 201, "data", "{}")

merge_pull_request(repo_name, resp) ==
    Authorized("merge_pull_request", "repos/user/" \o repo_name \o "/pulls/1/merge",
               resp, 200, "True", "False")

auto_pr_review(repo_name, resp) ==
    Authorized("auto_pr_review", "repos/user/" \o repo_name \o "/pulls/1/files",
               resp, 200, "data", "{}")

\* has_runs: the 200 response lists at least one workflow run.
check_deployment_status(repo_name, resp, has_runs) ==
    LET endpoint == "repos/user/" \o repo_name \o "/actions/runs"
        request == <<Enter("check_deployment_status", endpoint), Http("github", endpoint, resp)>>
    IN  IF github_token = "" THEN R("{}", <<Enter("check_deployment_status", endpoint)>>)
        ELSE IF resp.kind = "exception" THEN R("RequestException", request)
        ELSE IF resp.code = 200 /\ has_runs THEN R("data", request)
        ELSE R("{}", request)

\* has_repos: the 200 response lists at least one repository.
health_check_all_repos(resp, has_repos) ==
    LET endpoint == "users/user/repos"
        request == <<Enter("health_check_all_repos", endpoint), Http("github", endpoint, resp)>>
    IN  IF github_token = ""
        THEN R("{}", <<Enter("health_check_all_repos", endpoint),
                       Stdout("No GITHUB_TOKEN: skipping health check")>>)
        ELSE IF resp.kind = "exception" THEN R("RequestException", request)
        ELSE IF resp.code # 200
        THEN R("{}", request \o <<Stdout("Failed to list repositories")>>)
        ELSE IF has_repos THEN R("data", request)
        ELSE R("{}", request)

\* Returns the branch name: the provider's, else the configured one.
get_default_branch(repo_name, resp) ==
    LET endpoint == "repos/user/" \o repo_name
        request == <<Enter("get_default_branch", endpoint), Http("github", endpoint, resp)>>
    IN  IF github_token = "" THEN R(config.default_branch, <<Enter("get_default_branch", endpoint)>>)
        ELSE IF resp.kind = "exception" THEN R("RequestException", request)
        ELSE IF resp.code = 200 THEN R("main", request)
        ELSE R(config.default_branch, request)

(***************************************************************************)
(* Batch runner                                                            *)
(***************************************************************************)
\* The deploy branch: the fan-out's return value is dropped, ok = True.
DeployOnly(repo, fanned) ==
    [ret |-> IF fanned.ret \in Raised THEN fanned.ret ELSE "True",
     log |-> fanned.log, copy |-> workcopy[repo]]

\* The loop body with a final `else` that deploys, in place of the branch
\* that only reports the unknown selector.
batch_dispatch_deploying(repo, operation, files, env) ==
    IF operation = "update_and_deploy"
    THEN auto_workflow_update_and_deploy(repo, files, env)
    ELSE IF operation = "improve"
    THEN auto_improve_repository(repo, env)
    ELSE DeployOnly(repo, Entered("trigger_all_deployments", repo,
                                  trigger_all_deployments(env.resp)))

\* One pass of the loop body up to results.append: the single-repository
\* operation the selector names, and the `ok` the pass records for it (or
\* the exception that leaves the loop).
batch_dispatch(repo, operation, files, env) ==
    IF operation = "update_and_deploy"
    THEN auto_workflow_update_and_deploy(repo, files, env)
    ELSE IF operation = "improve"
    THEN auto_improve_repository(repo, env)
    ELSE IF operation = "deploy"
    THEN DeployOnly(repo, Entered("trigger_all_deployments", repo,
                                  trigger_all_deployments(env.resp)))
    ELSE [ret |-> "False", log |-> <<Stdout("Unknown operation: " \o operation)>>,
          copy |-> workcopy[repo]]

(***************************************************************************)
(* State                                                                   *)
(***************************************************************************)
HookUrls == {"", "https://hook"}
ServiceIds == {"", "srv-config"}
Overrides == {"", "srv-override"}
Tokens == {"", "token"}

HookPlatform == [enabled : BOOLEAN, deploy_hook_url : HookUrls]
RenderPlatform == [enabled : BOOLEAN, service_id : ServiceIds]
HostingPlatforms ==
    [vercel : HookPlatform, render : RenderPlatform, netlify : HookPlatform]

NoCopy == [exists |-> FALSE, files |-> EmptyTree]
OldCopy == [exists |-> TRUE, files |-> [EmptyTree EXCEPT !["README.md"] = "old readme"]]
NoBatch == [repos |-> <<>>, operation |-> "", files |-> <<>>, i |-> 0, results |-> <<>>]
NoCall == [op |-> "", arg |-> "", ret |-> "", log |-> <<>>]

Call(op, arg, res) == [op |-> op, arg |-> arg, ret |-> res.ret, log |-> res.log]

\* The deployment component alone, under every hosting configuration.
InitDeploy ==
    /\ config \in [auto_deploy : {"absent"}, default_branch : {"main"},
                   hosting_platforms : HostingPlatforms]
    /\ github_token = "token"
    /\ render_token \in Tokens
    /\ workcopy = [repo \in Repos |-> NoCopy]
    /\ pc = "idle"
    /\ last = NoCall
    /\ batch = NoBatch

Finish(call) ==
    /\ pc = "idle"
    /\ pc' = "done"
    /\ last' = call
    /\ UNCHANGED <<config, github_token, render_token, workcopy, batch>>

\* The end of a call that may have changed repo_name's working copy.
FinishOn(repo_name, op, res) ==
    /\ pc' = "done"
    /\ last' = Call(op, repo_name, res)
    /\ workcopy' = [workcopy EXCEPT ![repo_name] = res.copy]
    /\ UNCHANGED <<config, github_token, render_token, batch>>

DeployToVercel ==
    \E resp \in Responses :
        Finish(Call("deploy_to_vercel", "", deploy_to_vercel(resp)))

DeployToRender ==
    \E service_id \in Overrides, resp \in Responses :
        Finish(Call("deploy_to_render", service_id, deploy_to_render(service_id, resp)))

DeployToNetlify ==
    \E resp \in Responses :
        Finish(Call("deploy_to_netlify", "", deploy_to_netlify(resp)))

TriggerAllDeployments ==
    \E resp \in [vercel : Responses, render : Responses, netlify : Responses] :
        Finish(Call("trigger_all_deployments", "", trigger_all_deployments(resp)))

NextDeploy ==
    \/ DeployToVercel
    \/ DeployToRender
    \/ DeployToNetlify
    \/ TriggerAllDeployments

SpecDeploy == InitDeploy /\ [][NextDeploy]_vars

(***************************************************************************)
(* The workflow sequencer, called once from the idle program               *)
(***************************************************************************)
FileMappings ==
    { <<>>,
      <<<<"README.md", "new readme">>>>,
      <<<<"src/app.py", "print(1)">>, <<"README.md", "new readme">>>> }

\* The committer identity is configured, or missing and then set.
Identities ==
    { [name |-> "dev", email |-> "dev@example.org", set |-> 0],
      [name |-> "", email |-> "", set |-> 0] }
\* At most one git step fails: the steps after a failed one do not run.
GitOutcomes ==
    { g \in [head : {"", "dev"}, add : ExitCodes, commit : ExitCodes, push : ExitCodes] :
        g.add + g.commit + g.push <= 1 }

\* The responses the outbound calls get when a workflow reaches the fan-out.
SomeResponses == {Response(200), Response(500), TransportFailure}
FanOutResponses == [vercel : SomeResponses, render : SomeResponses, netlify : SomeResponses]

WorkflowEnvs ==
    [clone : ExitCodes, remote : {OldCopy.files}, identity : Identities,
     git : GitOutcomes, resp : FanOutResponses]

\* One target enabled and complete, as a hosting configuration.
On(url) == [enabled |-> TRUE, deploy_hook_url |-> url]
Off == [enabled |-> FALSE, deploy_hook_url |-> ""]
SomeHosting ==
    { [vercel |-> Off, render |-> [enabled |-> FALSE, service_id |-> ""], netlify |-> Off],
      [vercel |-> On("https://hook"), render |-> [enabled |-> FALSE, service_id |-> ""],
       netlify |-> On("")],
      [vercel |-> Off, render |-> [enabled |-> TRUE, service_id |-> "srv-config"],
       netlify |-> On("https://hook")],
      [vercel |-> On("https://hook"), render |-> [enabled |-> TRUE, service_id |-> "srv-config"],
       netlify |-> On("https://hook")] }

Init ==
    /\ config \in [auto_deploy : {"absent", "True", "False"}, default_branch : {"main"},
                   hosting_platforms : SomeHosting]
    /\ github_token = "token"
    /\ render_token = "token"
    /\ workcopy \in {[repo \in Repos |-> NoCopy],
                     [repo \in Repos |-> IF repo = "r1" THEN OldCopy ELSE NoCopy]}
    /\ pc = "idle"
    /\ last = NoCall
    /\ batch = NoBatch

AutoWorkflowUpdateAndDeploy ==
    /\ pc = "idle"
    /\ \E repo_name \in Repos, files_to_update \in FileMappings, env \in WorkflowEnvs :
        FinishOn(repo_name, "auto_workflow_update_and_deploy",
                 auto_workflow_update_and_deploy(repo_name, files_to_update, env))

Next ==
    \/ AutoWorkflowUpdateAndDeploy

Spec == Init /\ [][Next]_vars

(***************************************************************************)
(* The planner and the provider API, each called once                      *)
(***************************************************************************)
MaxListing == 2

Names ==
    {"README.md", "Readme.rst", "readme", "docs-readme.md", "READ.md",
     ".gitignore", ".GITIGNORE", ".gitignore.bak", "main.js"}

ListingResponse(names) == [kind |-> "response", code |-> 200, body |-> names]
Listings ==
    {ListingResponse(names) : names \in {l \in SUBSET Names : Cardinality(l) <= MaxListing}}
        \cup {Response(404), Response(500), TransportFailure}

ApiResponses ==
    {Response(200), Response(201), Response(401), Response(404), TransportFailure}

PlanEnvs ==
    [listing : Listings, clone : ExitCodes, remote : {OldCopy.files},
     identity : {[name |-> "dev", email |-> "dev@example.org", set |-> 0]},
     git : {g \in GitOutcomes : g.head = "dev"},
     resp : [vercel : {Response(200)}, render : {Response(200), TransportFailure},
             netlify : {Response(500)}]]

InitPlan ==
    /\ config \in [auto_deploy : {"absent"}, default_branch : {"main"},
                   hosting_platforms :
                      {h \in SomeHosting : h.vercel.enabled = h.render.enabled}]
    /\ github_token \in Tokens
    /\ render_token = "token"
    /\ workcopy \in {[repo \in Repos |-> NoCopy],
                     [repo \in Repos |-> IF repo = "r1" THEN OldCopy ELSE NoCopy]}
    /\ pc = "idle"
    /\ last = NoCall
    /\ batch = NoBatch

AutoImproveRepository ==
    /\ pc = "idle"
    /\ \E repo_name \in Repos, env \in PlanEnvs :
        FinishOn(repo_name, "auto_improve_repository", auto_improve_repository(repo_name, env))

AnalyzeRepository ==
    \E repo_name \in Repos, resp \in Listings :
        Finish(Call("analyze_repository", repo_name, analyze_repository(repo_name, resp)))

CreateRepository ==
    \E repo_name \in Repos, resp \in ApiResponses :
        Finish(Call("create_repository", repo_name, create_repository(repo_name, resp)))

CreatePullRequest ==
    \E repo_name \in Repos, resp \in ApiResponses :
        Finish(Call("create_pull_request", repo_name, create_pull_request(repo_name, resp)))

MergePullRequest ==
    \E repo_name \in Repos, resp \in ApiResponses :
        Finish(Call("merge_pull_request", repo_name, merge_pull_request(repo_name, resp)))

AutoPrReview ==
    \E repo_name \in Repos, resp \in ApiResponses :
        Finish(Call("auto_pr_review", repo_name, auto_pr_review(repo_name, resp)))

CheckDeploymentStatus ==
    \E repo_name \in Repos, resp \in ApiResponses, has_runs \in BOOLEAN :
        Finish(Call("check_deployment_status", repo_name,
                    check_deployment_status(repo_name, resp, has_runs)))

HealthCheckAllRepos ==
    \E resp \in ApiResponses, has_repos \in BOOLEAN :
        Finish(Call("health_check_all_repos", "", health_check_all_repos(resp, has_repos)))

GetDefaultBranch ==
    \E repo_name \in Repos, resp \in ApiResponses :
        Finish(Call("get_default_branch", repo_name, get_default_branch(repo_name, resp)))

NextPlan ==
    \/ AutoImproveRepository
    \/ AnalyzeRepository
    \/ CreateRepository
    \/ CreatePullRequest
    \/ MergePullRequest
    \/ AutoPrReview
    \/ CheckDeploymentStatus
    \/ HealthCheckAllRepos
    \/ GetDefaultBranch

SpecPlan == InitPlan /\ [][NextPlan]_vars

(***************************************************************************)
(* The batch runner, one pass of its loop per step                         *)
(***************************************************************************)
MaxBatch == 3

\* The repository lists a batch is started with.
RepoLists == UNION {[1..n -> Repos] : n \in 0..MaxBatch}

Operations == {"improve", "update_and_deploy", "deploy", "status"}

\* kwargs.get("files", {}): the mapping passed, or the empty one.
BatchFiles == {<<>>, <<<<"README.md", "new readme">>>>}

BatchEnvs ==
    [listing : {ListingResponse({"main.js"}), Response(404), TransportFailure},
     clone : ExitCodes, remote : {OldCopy.files},
     identity : {[name |-> "dev", email |-> "dev@example.org", set |-> 0]},
     git : {g \in GitOutcomes : g.head = "dev" /\ g.add = 0},
     resp : [vercel : {Response(200)}, render : {Response(200), TransportFailure},
             netlify : {Response(200)}]]

InitBatch ==
    /\ config \in [auto_deploy : {"absent"}, default_branch : {"main"},
                   hosting_platforms :
                      {h \in SomeHosting : h.vercel.enabled = h.render.enabled}]
    /\ github_token = "token"
    /\ render_token = "token"
    /\ workcopy \in {[repo \in Repos |-> NoCopy],
                     [repo \in Repos |-> IF repo = "r1" THEN OldCopy ELSE NoCopy]}
    /\ pc = "idle"
    /\ last = NoCall
    /\ batch = NoBatch

BatchStart ==
    /\ pc = "idle"
    /\ \E repos \in RepoLists, operation \in Operations, files \in BatchFiles :
        /\ (operation # "update_and_deploy" => files = <<>>)
        /\ batch' = [repos |-> repos, operation |-> operation, files |-> files,
                     i |-> 1, results |-> <<>>]
    /\ pc' = "batch"
    /\ UNCHANGED <<config, github_token, render_token, workcopy, last>>

\* results.append({"repo": repo, "success": ok}), or the exception leaving
\* the loop and the method.
Record(repo, res) ==
    /\ workcopy' = [workcopy EXCEPT ![repo] = res.copy]
    /\ IF res.ret \in Raised
       THEN /\ pc' = "done"
            /\ last' = Call("batch_repository_operation", repo, res)
            /\ batch' = batch
       ELSE /\ pc' = "batch"
            /\ last' = Call(batch.operation, repo, res)
            /\ batch' = [batch EXCEPT
                           !.results = Append(@, [repo |-> repo, success |-> res.ret]),
                           !.i = @ + 1]

\* for repo in repos: ... results.append(...); time.sleep(1.2)
\* (the pause between repositories changes no state and is not a step).
BatchItem ==
    /\ pc = "batch"
    /\ batch.i <= Len(batch.repos)
    /\ \E env \in BatchEnvs :
        Record(batch.repos[batch.i],
               batch_dispatch(batch.repos[batch.i], batch.operation, batch.files, env))
    /\ UNCHANGED <<config, github_token, render_token>>

\* return results
BatchReturn ==
    /\ pc = "batch"
    /\ batch.i > Len(batch.repos)
    /\ pc' = "done"
    /\ last' = [op |-> "batch_repository_operation", arg |-> "", ret |-> "results", log |-> <<>>]
    /\ UNCHANGED <<config, github_token, render_token, workcopy, batch>>

NextBatch ==
    \/ BatchStart
    \/ BatchItem
    \/ BatchReturn

SpecBatch == InitBatch /\ [][NextBatch]_vars

(***************************************************************************)
(* Properties of the workflow sequencer                                    *)
(***************************************************************************)
Adapters == {"deploy_to_vercel", "deploy_to_render", "deploy_to_netlify"}
AdapterCalls(log) == {i \in 1..Len(log) : log[i].kind = "call" /\ log[i].tag \in Adapters}
GitSteps == {"add", "commit", "push"}
GitFailures(log) ==
    {i \in 1..Len(log) : log[i].kind = "git" /\ log[i].tag \in GitSteps /\ log[i].got # 0}
PushedBefore(log, i) ==
    \E j \in 1..(i - 1) : log[j].kind = "git" /\ log[j].tag = "push" /\ log[j].got = 0

Sequenced == last.op = "auto_workflow_update_and_deploy"
\* The file mapping the sequencer was entered with, and what it found on disk.
Mapping(log) == log[1].arg
FoundCopy(log) == log[2].got

\* C1: with auto-deploy on, a deploy adapter is called only after a
\* successful push; a run in which add, commit or push exits non-zero calls
\* no adapter.
C1_DeployOnlyAfterSuccessfulPush ==
    (Sequenced /\ AutoDeploy) =>
        /\ \A i \in AdapterCalls(last.log) : PushedBefore(last.log, i)
        /\ GitFailures(last.log) # {} => AdapterCalls(last.log) = {}

\* C5: called without a working copy, the sequencer attempts exactly one
\* clone, before any write; a failed clone ends the call with False, no
\* write, no commit and no working copy.
C5_OneCloneBeforeWrites ==
    (Sequenced /\ ~FoundCopy(last.log)) =>
        LET clones == GitCalls(last.log, "clone")
        IN  /\ Cardinality(clones) = 1
            /\ \A c \in clones, w \in Writes(last.log) : c < w
            /\ \A c \in clones :
                 last.log[c].got # 0 =>
                    /\ Writes(last.log) = {}
                    /\ GitCalls(last.log, "commit") = {}
                    /\ AdapterCalls(last.log) = {}
                    /\ last.ret = "False"
                    /\ ~workcopy[last.arg].exists

C5_Witness ==
    /\ Sequenced
    /\ ~FoundCopy(last.log)
    /\ Mapping(last.log) # <<>>
    /\ \E c \in GitCalls(last.log, "clone") : last.log[c].got # 0
    /\ last.ret = "False"

\* C10: with an empty file mapping on an existing working copy, a commit
\* that exits non-zero never makes the sequencer raise: the failure is
\* caught and reported, and no push follows it.
C10_EmptyMappingNeverRaises ==
    (Sequenced /\ FoundCopy(last.log) /\ Mapping(last.log) = <<>>) =>
        \A c \in GitCalls(last.log, "commit") :
            last.log[c].got # 0 =>
                /\ last.ret \notin Raised
                /\ GitCalls(last.log, "push") = {}
                /\ Printed(last.log, "Git operation failed")

(***************************************************************************)
(* Properties of the adapters and of the fan-out                           *)
(***************************************************************************)
Hosts == {"vercel", "render", "netlify"}
AdapterOf(host) == "deploy_to_" \o host
AllHttp(log) == {i \in 1..Len(log) : log[i].kind = "http"}

\* The target is enabled and has what its call needs; override is the
\* service identifier the caller of deploy_to_render passed.
Ready(host, override) ==
    LET cfg == config.hosting_platforms
    IN  CASE host = "vercel" -> cfg.vercel.enabled /\ cfg.vercel.deploy_hook_url # ""
          [] host = "netlify" -> cfg.netlify.enabled /\ cfg.netlify.deploy_hook_url # ""
          [] host = "render" -> /\ cfg.render.enabled
                                /\ render_token # ""
                                /\ (override # "" \/ cfg.render.service_id # "")

Succeeded(log) ==
    \/ Printed(log, "Vercel deployment triggered")
    \/ Printed(log, "Render deployment triggered")
    \/ Printed(log, "Netlify deployment triggered")

\* C3: the fan-out attempts every enabled target, vercel then render then
\* netlify, whatever the targets before it returned or raised.
C3_EveryEnabledTargetAttempted ==
    last.op = "trigger_all_deployments" =>
        /\ \A host \in Hosts :
             config.hosting_platforms[host].enabled
                => Cardinality(Calls(last.log, AdapterOf(host))) = 1
        /\ \A v \in Calls(last.log, "deploy_to_vercel"),
              r \in Calls(last.log, "deploy_to_render") : v < r
        /\ \A r \in Calls(last.log, "deploy_to_render"),
              n \in Calls(last.log, "deploy_to_netlify") : r < n
        /\ \A v \in Calls(last.log, "deploy_to_vercel"),
              n \in Calls(last.log, "deploy_to_netlify") : v < n

\* C4: an adapter makes an outbound call only when its target is enabled and
\* its required fields are present; otherwise it returns False and no
\* request at all is sent.
C4_NoCallUnlessEnabledAndComplete ==
    /\ \A host \in Hosts :
         HttpCalls(last.log, host) # {} => Ready(host, last.arg)
    /\ \A host \in Hosts :
         (last.op = AdapterOf(host) /\ ~Ready(host, last.arg))
            => (last.ret = "False" /\ AllHttp(last.log) = {})

C4_Witness ==
    /\ last.op = "deploy_to_vercel"
    /\ ~config.hosting_platforms.vercel.enabled
    /\ config.hosting_platforms.vercel.deploy_hook_url # ""
    /\ last.ret = "False"
    /\ AllHttp(last.log) = {}

\* What Python's truth test makes of a returned value.
Truthy(ret) == ret \in {"True", "data"}

\* C6: the fan-out returns the logical OR of the adapters' results: a true
\* value when some attempted target succeeded, a false one when none did.
C6_FanOutReturnsOrOfResults ==
    (last.op = "trigger_all_deployments" /\ last.ret \notin Raised) =>
        (Truthy(last.ret) <=> Succeeded(last.log))

\* C7: an adapter that reached its outbound call returns True exactly for
\* the response codes 200, 201, 202, and False, never an exception, for
\* every other code and for a transport failure.
C7_AdapterClassifiesEveryOutcome ==
    \A host \in Hosts :
        last.op = AdapterOf(host) =>
            \A i \in HttpCalls(last.log, host) :
                /\ last.ret \in {"True", "False"}
                /\ last.ret = "True" <=>
                      (last.log[i].got.kind = "response" /\ last.log[i].got.code \in {200, 201, 202})

(***************************************************************************)
(* Properties of the planner and of the provider API                       *)
(***************************************************************************)
\* C8: without an access token no request is sent to the provider API.
C8_NoTokenNoProviderRequest ==
    github_token = "" => HttpCalls(last.log, "github") = {}

\* The listed names that start with "readme" whatever their case.
ReadmeNames == {"README.md", "Readme.rst", "readme"}
PathsOf(mapping) == {mapping[i][1] : i \in 1..Len(mapping)}

\* C9: after a successful listing the planner hands the sequencer one file
\* mapping: the CI workflow always, README.md exactly when no listed name
\* starts with "readme" in any case, .gitignore exactly when no listed name
\* is ".gitignore" (so three entries with both missing, one with both
\* there).  After a failed listing it hands over nothing and fails.
C9_PlannedFiles ==
    last.op = "auto_improve_repository" =>
        LET listing == last.log[3].got
            handed == Calls(last.log, "auto_workflow_update_and_deploy")
        IN  IF listing.kind = "response" /\ listing.code = 200
            THEN /\ Cardinality(handed) = 1
                 /\ \A h \in handed :
                      LET paths == PathsOf(last.log[h].arg)
                          readme == listing.body \cap ReadmeNames = {}
                          ignore == ".gitignore" \notin listing.body
                      IN  /\ Len(last.log[h].arg) = Cardinality(paths)
                          /\ paths \subseteq {"README.md", ".gitignore",
                                              ".github/workflows/deploy.yml"}
                          /\ ".github/workflows/deploy.yml" \in paths
                          /\ "README.md" \in paths <=> readme
                          /\ ".gitignore" \in paths <=> ignore
                          /\ (readme /\ ignore) => Cardinality(paths) = 3
                          /\ (~readme /\ ~ignore) => Cardinality(paths) = 1
            ELSE /\ handed = {}
                 /\ Writes(last.log) = {}
                 /\ last.ret # "True"
                 /\ listing.kind = "response" => last.ret = "False"

C9_Witness ==
    /\ last.op = "auto_improve_repository"
    /\ last.log[3].got.kind = "response"
    /\ last.log[3].got.code = 200
    /\ last.log[3].got.body = {"Readme.rst", ".gitignore"}
    /\ \E h \in Calls(last.log, "auto_workflow_update_and_deploy") :
         PathsOf(last.log[h].arg) = {".github/workflows/deploy.yml"}

(***************************************************************************)
(* Properties of the batch runner                                          *)
(***************************************************************************)
BatchEnded == pc = "done" /\ last.op = "batch_repository_operation"

\* C2: a batch returns one outcome per repository of its list, in the
\* list's order, also when the operation raises for some repository: that
\* one is recorded with success False and the later ones are processed.
C2_OneOutcomePerRepository ==
    BatchEnded =>
        /\ last.ret = "results"
        /\ Len(batch.results) = Len(batch.repos)
        /\ \A i \in 1..Len(batch.results) : batch.results[i].repo = batch.repos[i]

KnownOperations == {"improve", "update_and_deploy", "deploy"}
UnknownSelector == pc # "idle" /\ batch # NoBatch /\ batch.operation \notin KnownOperations
\* The events of a log other than console output.
Effects(log) == {i \in 1..Len(log) : log[i].kind # "print"}

\* C11: a batch whose operation selector is none of improve,
\* update_and_deploy and deploy records success False for every repository,
\* in the list's order, performs no clone, write, git step, request or
\* single-repository call and leaves every working copy as it was, never
\* raises, and returns with one outcome per repository.
C11_UnknownSelectorFailsEachItem ==
    UnknownSelector =>
        /\ \A i \in 1..Len(batch.results) :
              /\ batch.results[i].repo = batch.repos[i]
              /\ batch.results[i].success = "False"
        /\ Len(batch.results) = batch.i - 1
        /\ last.ret \notin Raised
        /\ last # NoCall => Effects(last.log) = {}
        /\ \A r \in Repos : workcopy[r] \in {NoCopy, OldCopy}
        /\ pc = "done" => /\ last.ret = "results"
                          /\ Len(batch.results) = Len(batch.repos)

C11_Witness ==
    /\ BatchEnded /\ UnknownSelector
    /\ last.ret = "results"
    /\ Len(batch.repos) = MaxBatch /\ Len(batch.results) = MaxBatch
    /\ batch.results[MaxBatch].success = "False"

\* The sequencer had a working copy to write into: one it found, or one a
\* clone that exited 0 gave it.
ObtainedCopy(log) ==
    FoundCopy(log) \/ \E c \in GitCalls(log, "clone") : log[c].got = 0
\* The exception that left the call is the one of the Render request, the
\* last thing the call did.
RaisedByRender(ret, log) ==
    /\ ret = "RequestException"
    /\ log[Len(log)].kind = "http" /\ log[Len(log)].tag = "render"
    /\ log[Len(log)].got = TransportFailure

\* C12: after a sequencer call that obtained a working copy, every path of
\* the file mapping holds exactly the supplied content, whatever the file
\* held before, and every other path holds what the copy had.  This is so
\* also when add, commit or push exits non-zero: that failure is caught
\* and reported, the files stay as written, and an exception leaves the
\* call only when it is the one of a deploy request made afterwards.
C12_WrittenFilesSurviveGitFailure ==
    (Sequenced /\ ObtainedCopy(last.log)) =>
        LET mapping == Mapping(last.log)
            files == workcopy[last.arg].files
        IN  /\ workcopy[last.arg].exists
            /\ \A k \in 1..Len(mapping) : files[mapping[k][1]] = mapping[k][2]
            /\ \A p \in Paths \ PathsOf(mapping) : files[p] = OldCopy.files[p]
            /\ Cardinality(Writes(last.log)) = Len(mapping)
            /\ GitFailures(last.log) # {} =>
                  /\ Printed(last.log, "Git operation failed")
                  /\ \A w \in Writes(last.log), g \in GitFailures(last.log) : w < g
                  /\ last.ret \in Raised => RaisedByRender(last.ret, last.log)
                  /\ last.ret \notin Raised => last.ret = "True"

\* An existing file overwritten, then a failed push.
C12_Witness ==
    /\ Sequenced /\ FoundCopy(last.log)
    /\ "README.md" \in PathsOf(Mapping(last.log))
    /\ OldCopy.files["README.md"] # "new readme"
    /\ workcopy[last.arg].files["README.md"] = "new readme"
    /\ \E g \in GitFailures(last.log) : last.log[g].tag = "push"
    /\ last.ret = "True"

\* The pass of the batch loop that `last` records, and the flag it appended.
BatchPassed ==
    /\ pc = "batch" /\ last # NoCall /\ last.op = batch.operation
    /\ Len(batch.results) > 0
RecordedFlag == batch.results[Len(batch.results)].success
CloneFailed(log) == \E c \in GitCalls(log, "clone") : log[c].got # 0

\* C13: in a batch with operation improve or update_and_deploy the flag
\* recorded for a repository is False whenever its clone failed or its
\* add, commit or push exited non-zero.
C13_FlagTrueOnlyIfWorkflowSucceeded ==
    (BatchPassed /\ batch.operation \in {"improve", "update_and_deploy"}) =>
        ((CloneFailed(last.log) \/ GitFailures(last.log) # {}) => RecordedFlag = "False")

====
